---------------------------- MODULE Spec2Model ----------------------------
(***************************************************************************)
(* Model of the Cobo custody API helper (lib/helper.js) and of the example *)
(* script that drives it (src/index.js).                                   *)
(*                                                                         *)
(* JavaScript strings are sequences of one-character strings, so that the  *)
(* separators of the signed message, the ordering of the parameter keys    *)
(* and the case of the method are computed and not assumed.  JavaScript    *)
(* values are records tagged by their type.                                *)
(***************************************************************************)
EXTENDS Integers, Sequences, FiniteSets

VARIABLES
    config,    \* the module constants API_KEY, API_SECRET, BASE_URL
    clock,     \* the millisecond clock read by Date.now()
    calls,     \* one record per invocation of an exported async function
    network,   \* the HTTP requests handed to fetch that were sent, in order
    main,      \* the example script's main(): position, log, exit code
    sigPrev,   \* the direct call of signRequest before the latest one
    sigCur     \* the latest direct call of signRequest

vars == <<config, clock, calls, network, main, sigPrev, sigCur>>

(***************************************************************************)
(* Bounds of the model.                                                    *)
(***************************************************************************)
MaxClock == 2      \* the clock runs over 1..MaxClock
MaxCalls == 2      \* concurrently pending invocations in SpecConc
MaxKeys == 2       \* keys of a parameter object given to signRequest

(***************************************************************************)
(* Characters and strings.                                                 *)
(***************************************************************************)
LowerCase == <<"a","b","c","d","e","f","g","h","i","j","k","l","m",
               "n","o","p","q","r","s","t","u","v","w","x","y","z">>
UpperCase == <<"A","B","C","D","E","F","G","H","I","J","K","L","M",
               "N","O","P","Q","R","S","T","U","V","W","X","Y","Z">>
Digits == <<"0","1","2","3","4","5","6","7","8","9">>

\* The characters the model uses, in ascending UTF-16 code unit order.
CodeUnits == <<" ", "\"", "&", ",", ".", "/">> \o Digits \o <<":", "=">>
             \o UpperCase \o <<"[", "]", "_">> \o LowerCase
             \o <<"{", "|", "}">>

IndexOf(seq, x) == CHOOSE i \in 1..Len(seq) : seq[i] = x

CodeUnit(c) == IndexOf(CodeUnits, c)

\* String.prototype.toUpperCase on one character.
UpperChar(c) ==
    IF \E i \in 1..Len(LowerCase) : LowerCase[i] = c
    THEN UpperCase[IndexOf(LowerCase, c)]
    ELSE c

ToUpperCaseNoOp(s) == s

ToUpperCase(s) == [i \in 1..Len(s) |-> UpperChar(s[i])]

\* a < b in the order Array.prototype.sort uses by default (code units).
RECURSIVE StrLess(_, _)
StrLess(a, b) ==
    IF b = <<>> THEN FALSE
    ELSE IF a = <<>> THEN TRUE
    ELSE IF a[1] = b[1] THEN StrLess(Tail(a), Tail(b))
    ELSE CodeUnit(a[1]) < CodeUnit(b[1])

\* Array.prototype.join
RECURSIVE Join(_, _)
Join(strs, sep) ==
    IF strs = <<>> THEN <<>>
    ELSE IF Len(strs) = 1 THEN strs[1]
    ELSE strs[1] \o sep \o Join(Tail(strs), sep)

\* Number.prototype.toString for a natural number.
RECURSIVE NumToStr(_)
NumToStr(n) ==
    IF n < 10 THEN <<Digits[n + 1]>>
    ELSE NumToStr(n \div 10) \o <<Digits[(n % 10) + 1]>>

(***************************************************************************)
(* JavaScript values.                                                      *)
(***************************************************************************)
Undef == [t |-> "undefined"]
Null == [t |-> "null"]
Str(s) == [t |-> "string", s |-> s]
Num(n) == [t |-> "number", n |-> n]
Arr(items) == [t |-> "array", items |-> items]
\* An object: its own properties in insertion order.
Obj(fields) == [t |-> "object", fields |-> fields]
Prop(k, v) == [k |-> k, v |-> v]

\* typeof v === 'object'
TypeofObject(v) == v.t \in {"null", "array", "object"}

S_null == <<"n","u","l","l">>
S_undefined == <<"u","n","d","e","f","i","n","e","d">>
S_objectObject == <<"[","o","b","j","e","c","t"," ","O","b","j","e","c","t","]">>

RECURSIVE JSONStringify(_)
RECURSIVE StringifyItems(_)
RECURSIVE StringifyFields(_)
\* JSON.stringify.  The strings of the model hold no character that JSON
\* escapes (no quote inside a string value, no backslash).
JSONStringify(v) ==
    CASE v.t = "null" -> S_null
      [] v.t = "string" -> <<"\"">> \o v.s \o <<"\"">>
      [] v.t = "number" -> NumToStr(v.n)
      [] v.t = "array" -> <<"[">> \o Join(StringifyItems(v.items), <<",">>) \o <<"]">>
      [] v.t = "object" -> <<"{">> \o Join(StringifyFields(v.fields), <<",">>) \o <<"}">>
      [] OTHER -> S_undefined

StringifyItems(items) ==
    IF items = <<>> THEN <<>>
    ELSE <<IF Head(items).t = "undefined" THEN S_null ELSE JSONStringify(Head(items))>>
         \o StringifyItems(Tail(items))

StringifyFields(fields) ==
    IF fields = <<>> THEN <<>>
    ELSE (IF Head(fields).v.t = "undefined" THEN <<>>
          ELSE << <<"\"">> \o Head(fields).k \o <<"\"", ":">>
                  \o JSONStringify(Head(fields).v) >>)
         \o StringifyFields(Tail(fields))

RECURSIVE ToString(_)
RECURSIVE ItemStrings(_)
\* The string a template literal `${v}` puts in place of v.
ToString(v) ==
    CASE v.t = "string" -> v.s
      [] v.t = "number" -> NumToStr(v.n)
      [] v.t = "null" -> S_null
      [] v.t = "array" -> Join(ItemStrings(v.items), <<",">>)
      [] v.t = "object" -> S_objectObject
      [] OTHER -> S_undefined

ItemStrings(items) ==
    IF items = <<>> THEN <<>>
    ELSE <<IF Head(items).t \in {"null", "undefined"} THEN <<>>
           ELSE ToString(Head(items))>>
         \o ItemStrings(Tail(items))

\* The truthiness `||` and `if` test.
Truthy(v) ==
    CASE v.t \in {"undefined", "null"} -> FALSE
      [] v.t = "string" -> v.s # <<>>
      [] v.t = "number" -> v.n # 0
      [] OTHER -> TRUE

\* a || b
OrElse(a, b) == IF Truthy(a) THEN a ELSE b

(***************************************************************************)
(* signRequest                                                             *)
(***************************************************************************)
\* Object.keys(params): the own keys in insertion order (the keys of the
\* model are not integer-like, which JavaScript would list first).
ObjectKeys(params) == [i \in 1..Len(params.fields) |-> params.fields[i].k]

\* params[key]
Get(params, key) ==
    IF \E i \in 1..Len(params.fields) : params.fields[i].k = key
    THEN params.fields[CHOOSE i \in 1..Len(params.fields) : params.fields[i].k = key].v
    ELSE Undef

RECURSIVE InsertSorted(_, _)
InsertSorted(k, sorted) ==
    IF sorted = <<>> THEN <<k>>
    ELSE IF StrLess(k, Head(sorted)) THEN <<k>> \o sorted
    ELSE <<Head(sorted)>> \o InsertSorted(k, Tail(sorted))

SortKeysNoOp(keys) == keys

\* Array.prototype.sort() with the default comparison.
RECURSIVE SortKeys(_)
SortKeys(keys) ==
    IF keys = <<>> THEN <<>>
    ELSE InsertSorted(Head(keys), SortKeys(Tail(keys)))

\* typeof params[key] === 'object' ? JSON.stringify(params[key]) : params[key]
\* as the template literal then renders it.
RenderValue(value) ==
    IF TypeofObject(value) THEN JSONStringify(value) ELSE ToString(value)

KeyValuePair(params, key) == key \o <<"=">> \o RenderValue(Get(params, key))

\* The canonical parameter string.  params is Undef when the argument is
\* omitted (the default {} applies) and may be Null.
ParamsStr(params) ==
    LET p == IF params.t = "undefined" THEN Obj(<<>>) ELSE params
    IN  IF Truthy(p) /\ Len(ObjectKeys(p)) > 0
        THEN LET sortedKeys == SortKeys(ObjectKeys(p))
                 keyValuePairs == [i \in 1..Len(sortedKeys) |->
                                       KeyValuePair(p, sortedKeys[i])]
             IN  Join(keyValuePairs, <<"&">>)
        ELSE <<>>

\* `${method.toUpperCase()}|${path}|${nonce}|${paramsStr}`
Message(method, path, nonce, paramsStr) ==
    ToUpperCase(method) \o <<"|">> \o path \o <<"|">> \o nonce \o <<"|">>
    \o paramsStr

\* crypto.createHash('sha256').update(message).digest(): the digest stands
\* for the message it was computed from (no collision is modelled).
Sha256(message) == [sha256 |-> message]

\* ec.keyFromPrivate(secret).sign(msgHash): deterministic (RFC 6979) ECDSA.
EcSign(secret, msgHash) == [signedHash |-> msgHash, key |-> secret]

\* signature.toDER('hex')
ToDERHex(signature) == [derHex |-> signature]

\* One run of signRequest: its locals and the value it returns.
SignRequestRun(secret, method, path, nonce, params) ==
    LET paramsStr == ParamsStr(params)
        message == Message(method, path, nonce, paramsStr)
        msgHash == Sha256(message)
        signature == EcSign(secret, msgHash)
    IN  [paramsStr |-> paramsStr, message |-> message,
         result |-> ToDERHex(signature)]

SignRequest(secret, method, path, nonce, params) ==
    SignRequestRun(secret, method, path, nonce, params).result

(***************************************************************************)
(* String literals of the source.                                          *)
(***************************************************************************)
S_POST == <<"P","O","S","T">>
S_GET == <<"G","E","T">>
S_get == <<"g","e","t">>
S_v2_wallets == <<"/","v","2","/","w","a","l","l","e","t","s">>
S_v2_wallets_slash == <<"/","v","2","/","w","a","l","l","e","t","s","/">>
S_slash_addresses == <<"/","a","d","d","r","e","s","s","e","s">>
S_v2_transactions_transfer == <<"/","v","2","/","t","r","a","n","s","a","c","t","i","o","n","s","/","t","r","a","n","s","f","e","r">>
S_name == <<"n","a","m","e">>
S_wallet_type == <<"w","a","l","l","e","t","_","t","y","p","e">>
S_Custodial == <<"C","u","s","t","o","d","i","a","l">>
S_chain_id == <<"c","h","a","i","n","_","i","d">>
S_ETH == <<"E","T","H">>
S_source_wallet_id == <<"s","o","u","r","c","e","_","w","a","l","l","e","t","_","i","d">>
S_token_id == <<"t","o","k","e","n","_","i","d">>
S_to_address == <<"t","o","_","a","d","d","r","e","s","s">>
S_amount == <<"a","m","o","u","n","t">>
S_limit == <<"l","i","m","i","t">>
S_offset == <<"o","f","f","s","e","t">>
S_wallet_id == <<"w","a","l","l","e","t","_","i","d">>
S_address == <<"a","d","d","r","e","s","s">>
S_message == <<"m","e","s","s","a","g","e">>
S_length == <<"l","e","n","g","t","h">>
S_Test_Wallet == <<"T","e","s","t"," ","W","a","l","l","e","t"," ">>
S_default_base_url == <<"h","t","t","p","s",":","/","/","a","p","i",".","c","o","b","o",".","c","o","m">>
S_application_json == <<"a","p","p","l","i","c","a","t","i","o","n","/","j","s","o","n">>

(***************************************************************************)
(* Module load: the configuration read from the environment.               *)
(***************************************************************************)
\* The environments the module is loaded in (.env): the process variables
\* COBO_API_KEY, COBO_API_SECRET and COBO_BASE_URL, Undef when unset.
Envs ==
    { [COBO_API_KEY |-> Str(<<"k","1">>), COBO_API_SECRET |-> Str(<<"5","e">>),
       COBO_BASE_URL |-> Undef],
      [COBO_API_KEY |-> Str(<<"k","2">>), COBO_API_SECRET |-> Str(<<"7","f">>),
       COBO_BASE_URL |-> Str(<<"h",":","/","/","d","e","v">>)],
      [COBO_API_KEY |-> Undef, COBO_API_SECRET |-> Str(<<"5","e">>),
       COBO_BASE_URL |-> Undef],
      [COBO_API_KEY |-> Str(<<"k","1">>), COBO_API_SECRET |-> Str(<<>>),
       COBO_BASE_URL |-> Undef] }

LoadConfig(env) ==
    [API_KEY |-> env.COBO_API_KEY,
     API_SECRET |-> env.COBO_API_SECRET,
     BASE_URL |-> OrElse(env.COBO_BASE_URL, Str(S_default_base_url))]

\* The load throws, and the module exports nothing, unless both are set.
ModuleLoads(env) ==
    ~ (~ Truthy(LoadConfig(env).API_KEY) \/ ~ Truthy(LoadConfig(env).API_SECRET))

\* The configurations of a loaded module.
Configs == { LoadConfig(env) : env \in { e \in Envs : ModuleLoads(e) } }

(***************************************************************************)
(* Errors and outcomes of a call.                                          *)
(***************************************************************************)
S_nonjson_prefix == <<"A","P","I"," ","r","e","t","u","r","n","e","d"," ","n","o","n","-","J","S","O","N"," ","r","e","s","p","o","n","s","e"," ","(","s","t","a","t","u","s"," ">>
S_failed_prefix == <<"A","P","I"," ","r","e","q","u","e","s","t"," ","f","a","i","l","e","d"," ","w","i","t","h"," ","s","t","a","t","u","s"," ">>
S_fetch_failed == <<"f","e","t","c","h"," ","f","a","i","l","e","d">>
S_get_body == <<"R","e","q","u","e","s","t"," ","w","i","t","h"," ","G","E","T","/","H","E","A","D"," ","m","e","t","h","o","d"," ","c","a","n","n","o","t"," ","h","a","v","e"," ","b","o","d","y",".">>
S_body_unusable == <<"B","o","d","y"," ","i","s"," ","u","n","u","s","a","b","l","e",":"," ","B","o","d","y"," ","h","a","s"," ","a","l","r","e","a","d","y"," ","b","e","e","n"," ","r","e","a","d">>
S_cannot_read == <<"C","a","n","n","o","t"," ","r","e","a","d"," ","p","r","o","p","e","r","t","i","e","s"," ","o","f"," ">>
S_HEAD == <<"H","E","A","D">>
S_OK == <<"O","K">>
S_Not_Found == <<"N","o","t"," ","F","o","u","n","d">>
S_No_Content == <<"N","o"," ","C","o","n","t","e","n","t">>

Err(name, message) == [name |-> name, message |-> message]

Pending == [kind |-> "pending"]
Return(value) == [kind |-> "return", value |-> value]
Throw(error) == [kind |-> "throw", error |-> error]

\* new Error(`API returned non-JSON response (status ${response.status})`)
NonJsonError(status) ==
    Err("Error", S_nonjson_prefix \o NumToStr(status) \o <<")">>)

\* new Error(`API request failed with status ${response.status}: ${detail}`)
FailedError(status, detail) ==
    Err("Error", S_failed_prefix \o NumToStr(status) \o <<":", " ">> \o ToString(detail))

\* The TypeError of reading a property of null or undefined.
PropertyError(v) == Err("TypeError", S_cannot_read \o ToString(v))

Nullish(v) == v.t \in {"null", "undefined"}

\* v[key] for a value v that is not null or undefined.
GetProp(v, key) ==
    CASE v.t = "object" -> Get(v, key)
      [] v.t = "array" /\ key = S_length -> Num(Len(v.items))
      [] v.t = "string" /\ key = S_length -> Num(Len(v.s))
      [] OTHER -> Undef

(***************************************************************************)
(* fetch: requests and responses.                                          *)
(***************************************************************************)
NoRequest == [none |-> TRUE]
NoResponse == [none |-> TRUE]

NoBody == [kind |-> "none"]
TextBody == [kind |-> "text"]
JsonBody(v) == [kind |-> "json", json |-> v]

Response(status, statusText, body) ==
    [status |-> status, statusText |-> statusText, body |-> body]

\* response.ok
ResponseOk(response) == response.status \in 200..299

\* fetch throws a TypeError, and sends nothing, for a GET or HEAD request
\* that is given a body.
FetchRefuses(request) ==
    request.method \in {S_GET, S_HEAD} /\ request.body.t # "undefined"

\* The error the rejected fetch promise carries.
FetchError(call) ==
    IF call.sent THEN Err("TypeError", S_fetch_failed)
    ELSE Err("TypeError", S_get_body)

(***************************************************************************)
(* apiRequest                                                              *)
(***************************************************************************)
HeaderNames == {"BIZ-API-KEY", "BIZ-API-NONCE", "BIZ-API-SIGNATURE",
                "Content-Type", "Accept"}

Headers(cfg, nonce, signature) ==
    [h \in HeaderNames |->
        CASE h = "BIZ-API-KEY" -> cfg.API_KEY
          [] h = "BIZ-API-NONCE" -> Str(nonce)
          [] h = "BIZ-API-SIGNATURE" -> signature
          [] OTHER -> Str(S_application_json)]

SignedParamsNone(bodyObj) == Obj(<<>>)

\* bodyObj || {}
SignedParams(bodyObj) == OrElse(bodyObj, Obj(<<>>))

\* The argument of fetch.
Request(cfg, method, path, headers, bodyObj) ==
    [url |-> cfg.BASE_URL.s \o path,
     method |-> ToUpperCase(method),
     headers |-> headers,
     body |-> IF Truthy(bodyObj) THEN Str(JSONStringify(bodyObj)) ELSE Undef]

\* An invocation that has not been made.
IdleCall ==
    [op |-> "none", args |-> <<>>, pc |-> "idle",
     method |-> <<>>, path |-> <<>>, bodyObj |-> Undef,
     now |-> 0, nonce |-> <<>>, request |-> NoRequest, sent |-> FALSE,
     apiCalls |-> 0, responded |-> FALSE, response |-> NoResponse,
     bodyUsed |-> FALSE, api |-> Pending, outcome |-> Pending]

\* apiRequest up to its first await: the nonce is the clock reading, the
\* request is signed and handed to fetch.
ApiRequestBegin(call, cfg, now, method, path, bodyObj) ==
    LET nonce == NumToStr(now)
        signature == SignRequest(cfg.API_SECRET.s, method, path, nonce,
                                 SignedParams(bodyObj))
        request == Request(cfg, method, path, Headers(cfg, nonce, signature), bodyObj)
    IN  [call EXCEPT !.pc = "await_fetch",
                     !.method = method, !.path = path, !.bodyObj = bodyObj,
                     !.now = now, !.nonce = nonce,
                     !.request = request, !.sent = ~ FetchRefuses(request),
                     !.apiCalls = @ + 1]

\* The fetch promise resolved: response.json() is called and awaited.
\* Reading a body that is not null disturbs it.
AfterResponse(call, response) ==
    [call EXCEPT !.responded = TRUE, !.response = response,
                 !.bodyUsed = response.body.kind # "none",
                 !.pc = "await_json"]

AfterJsonLenient(response, result) == Return(result)

\* The status check on the parsed body.
AfterJson(response, result) ==
    IF ~ ResponseOk(response)
    THEN IF Nullish(result) THEN Throw(PropertyError(result))
         ELSE Throw(FailedError(response.status,
                                OrElse(GetProp(result, S_message),
                                       Str(response.statusText))))
    ELSE Return(result)

\* response.text() in the catch block, and the throw that follows it: a
\* body already read cannot be read again.
AfterText(call) ==
    IF call.bodyUsed THEN Throw(Err("TypeError", S_body_unusable))
    ELSE Throw(NonJsonError(call.response.status))

(***************************************************************************)
(* createWallet, getDepositAddress, withdrawETH                            *)
(***************************************************************************)
CreateWalletBody(name) ==
    Obj(<<Prop(S_name, name), Prop(S_wallet_type, Str(S_Custodial))>>)

\* createWallet after apiRequest returned: logs result.wallet_id.
CreateWalletReturn(result) ==
    IF Nullish(result) THEN Throw(PropertyError(result)) ELSE Return(result)

GetDepositAddressPath(walletId) ==
    S_v2_wallets_slash \o ToString(walletId) \o S_slash_addresses

GetDepositAddressBody == Obj(<<Prop(S_chain_id, Str(S_ETH))>>)

\* getDepositAddress after apiRequest returned.
GetDepositAddressReturn(result) ==
    LET addressInfo == IF result.t = "array"
                       THEN IF Len(result.items) > 0 THEN result.items[1] ELSE Undef
                       ELSE result
    IN  IF Nullish(addressInfo) THEN Throw(PropertyError(addressInfo))
        ELSE Return(OrElse(GetProp(addressInfo, S_address), Str(<<>>)))

WithdrawETHBody(walletId, toAddress, amount) ==
    Obj(<<Prop(S_source_wallet_id, walletId), Prop(S_token_id, Str(S_ETH)),
          Prop(S_to_address, toAddress), Prop(S_amount, amount)>>)

\* What the exported function does with the outcome of its apiRequest: an
\* error passes through (no function catches it).
Continuation(op, api) ==
    IF api.kind = "throw" THEN api
    ELSE CASE op = "createWallet" -> CreateWalletReturn(api.value)
           [] op = "getDepositAddress" -> GetDepositAddressReturn(api.value)
           [] OTHER -> api

\* apiRequest settles with outcome api, and its caller with it.
Settle(call, api) ==
    [call EXCEPT !.pc = "done", !.api = api, !.outcome = Continuation(call.op, api)]

\* A call of an exported function in slot c, up to the await of fetch.
Begin(c, op, args, method, path, bodyObj) ==
    LET call == ApiRequestBegin([IdleCall EXCEPT !.op = op, !.args = args],
                                config, clock, method, path, bodyObj)
    IN  /\ calls' = [calls EXCEPT ![c] = call]
        /\ network' = IF call.sent
                      THEN Append(network, [from |-> c, request |-> call.request])
                      ELSE network

CallApiRequest(c, method, path, bodyObj) ==
    /\ calls[c].pc = "idle"
    /\ Begin(c, "apiRequest", <<Str(method), Str(path), bodyObj>>, method, path, bodyObj)
    /\ UNCHANGED <<config, clock, main, sigPrev, sigCur>>

CallCreateWallet(c, name) ==
    /\ calls[c].pc = "idle"
    /\ Begin(c, "createWallet", <<name>>, S_POST, S_v2_wallets, CreateWalletBody(name))
    /\ UNCHANGED <<config, clock, main, sigPrev, sigCur>>

CallGetDepositAddress(c, walletId) ==
    /\ calls[c].pc = "idle"
    /\ Begin(c, "getDepositAddress", <<walletId>>, S_POST,
             GetDepositAddressPath(walletId), GetDepositAddressBody)
    /\ UNCHANGED <<config, clock, main, sigPrev, sigCur>>

CallWithdrawETH(c, walletId, toAddress, amount) ==
    /\ calls[c].pc = "idle"
    /\ Begin(c, "withdrawETH", <<walletId, toAddress, amount>>, S_POST,
             S_v2_transactions_transfer, WithdrawETHBody(walletId, toAddress, amount))
    /\ UNCHANGED <<config, clock, main, sigPrev, sigCur>>

\* A shared response: every pending call sees the response that arrived.
FetchResolveShared(c, response) ==
    /\ calls[c].pc = "await_fetch" /\ calls[c].sent
    /\ calls' = [d \in DOMAIN calls |->
                    IF calls[d].pc = "await_fetch" /\ calls[d].sent
                    THEN AfterResponse(calls[d], response) ELSE calls[d]]
    /\ UNCHANGED <<config, clock, network, main, sigPrev, sigCur>>

\* The server's response to the request of call c arrives.
FetchResolve(c, response) ==
    /\ calls[c].pc = "await_fetch" /\ calls[c].sent
    /\ calls' = [calls EXCEPT ![c] = AfterResponse(calls[c], response)]
    /\ UNCHANGED <<config, clock, network, main, sigPrev, sigCur>>

\* A retry: the request is sent once more after the first failure.
FetchRejectRetry(c) ==
    /\ calls[c].pc = "await_fetch"
    /\ IF calls[c].sent
          /\ Cardinality({ i \in DOMAIN network : network[i].from = c }) < 2
       THEN /\ network' = Append(network, [from |-> c, request |-> calls[c].request])
            /\ calls' = calls
       ELSE /\ calls' = [calls EXCEPT ![c] = Settle(calls[c], Throw(FetchError(calls[c])))]
            /\ network' = network
    /\ UNCHANGED <<config, clock, main, sigPrev, sigCur>>

\* The fetch promise of call c rejects: the request was refused, or the
\* network failed.  The catch block logs and rethrows.
FetchReject(c) ==
    /\ calls[c].pc = "await_fetch"
    /\ calls' = [calls EXCEPT ![c] = Settle(calls[c], Throw(FetchError(calls[c])))]
    /\ UNCHANGED <<config, clock, network, main, sigPrev, sigCur>>

\* response.json() settles: with the parsed body, and then the status is
\* checked; or with a rejection, and then the catch block calls
\* response.text() and awaits it.
JsonSettle(c) ==
    /\ calls[c].pc = "await_json"
    /\ calls' = [calls EXCEPT ![c] =
                    IF calls[c].response.body.kind = "json"
                    THEN Settle(calls[c], AfterJson(calls[c].response,
                                                    calls[c].response.body.json))
                    ELSE [calls[c] EXCEPT !.pc = "await_text"]]
    /\ UNCHANGED <<config, clock, network, main, sigPrev, sigCur>>

\* response.text() settles, and apiRequest throws.
TextSettle(c) ==
    /\ calls[c].pc = "await_text"
    /\ calls' = [calls EXCEPT ![c] = Settle(calls[c], AfterText(calls[c]))]
    /\ UNCHANGED <<config, clock, network, main, sigPrev, sigCur>>

\* A millisecond passes.
Tick ==
    /\ clock < MaxClock
    /\ clock' = clock + 1
    /\ UNCHANGED <<config, calls, network, main, sigPrev, sigCur>>

(***************************************************************************)
(* Direct calls of signRequest.                                            *)
(***************************************************************************)
NoSign == [called |-> FALSE]

\* One call of signRequest, with the locals it computed.
SignCall(method, path, nonce, params) ==
    LET run == SignRequestRun(config.API_SECRET.s, method, path, nonce, params)
    IN  [called |-> TRUE, method |-> method, path |-> path, nonce |-> nonce,
         params |-> params, paramsStr |-> run.paramsStr,
         message |-> run.message, result |-> run.result]

DirectSign(method, path, nonce, params) ==
    /\ sigPrev' = sigCur
    /\ sigCur' = SignCall(method, path, nonce, params)
    /\ UNCHANGED <<config, clock, calls, network, main>>

\* Sequences of at most n distinct elements of S.
RECURSIVE DistinctSeqs(_, _)
DistinctSeqs(S, n) ==
    IF n = 0 THEN { <<>> }
    ELSE LET shorter == DistinctSeqs(S, n - 1)
         IN  shorter \cup
             { Append(q, x) : <<q, x>> \in
                 { qx \in shorter \X S :
                     \A i \in 1..Len(qx[1]) : qx[1][i] # qx[2] } }

\* The objects with the keys of the sequence ks, in that insertion order,
\* and values in V.
ObjectsOver(ks, V) ==
    { Obj([i \in 1..Len(ks) |-> Prop(ks[i], f[i])]) : f \in [1..Len(ks) -> V] }

ObjectsWith(K, V, n) == UNION { ObjectsOver(ks, V) : ks \in DistinctSeqs(K, n) }

\* Inputs of the calls that vary the parameter object alone.
CanonKeys == { <<"B">>, <<"a">>, <<"a","b">> }
CanonValues == { Str(<<"1">>), Null, Arr(<<Str(<<"1">>), Num(10)>>) }
CanonParams == ObjectsWith(CanonKeys, CanonValues, MaxKeys) \cup {Null, Undef}

\* Inputs of the calls that vary the whole request.
SignMethods == { S_get, S_GET }
SignPaths == { <<"/","w">>, <<"/","x">> }
SignNonces == { <<"1">>, <<"2">> }
SignKeys == { <<"a">>, <<"b">> }
SignValues == { Str(<<"1">>), Str(<<"2">>), Str(<<"1","&","b","=","2">>) }
SignParams == ObjectsWith(SignKeys, SignValues, MaxKeys)

\* main() before it runs; exitCode is -1 while the process has not ended.
MainIdle == [pc |-> "start", log |-> <<>>, exitCode |-> -1, wallet |-> Undef]

InitCommon ==
    /\ config \in Configs
    /\ clock = 1
    /\ network = <<>>
    /\ main = MainIdle
    /\ sigPrev = NoSign
    /\ sigCur = NoSign

InitSign == InitCommon /\ calls = <<>>

\* The model follows two consecutive calls, the pair the claims compare.
NextCanon ==
    /\ ~ sigPrev.called
    /\ \E params \in CanonParams : DirectSign(S_GET, S_v2_wallets, <<"1">>, params)

NextSign ==
    /\ ~ sigPrev.called
    /\ \E method \in SignMethods, path \in SignPaths,
          nonce \in SignNonces, params \in SignParams :
            DirectSign(method, path, nonce, params)

\* signRequest called with varying parameter objects.
SpecCanon == InitSign /\ [][NextCanon]_vars

\* signRequest called with varying requests.
SpecSign == InitSign /\ [][NextSign]_vars

(***************************************************************************)
(* The exported functions called by a client, one invocation per slot.     *)
(***************************************************************************)
\* { limit: 10, offset: 0 }
ListParams == Obj(<<Prop(S_limit, Num(10)), Prop(S_offset, Num(0))>>)

ApiMethods == { S_get, S_POST }
ApiPaths == { S_v2_wallets }
ApiBodies == { Null, ListParams }
WalletNames == { Str(<<"w">>) }
WalletIds == { Str(<<"w","1">>), Undef }
ToAddresses == { Str(<<"0","x","1">>) }
Amounts == { Str(<<"0",".","0","1">>), Num(1) }

\* The parsed bodies a server may answer with.
JsonValues ==
    { Null, Obj(<<>>), Arr(<<>>),
      Obj(<<Prop(S_wallet_id, Str(<<"w","1">>))>>),
      Obj(<<Prop(S_address, Str(<<"0","x","1">>))>>),
      Obj(<<Prop(S_address, Str(<<>>))>>),
      Arr(<<Obj(<<Prop(S_address, Str(<<"0","x","1">>))>>)>>),
      Obj(<<Prop(S_message, Str(<<"b","a","d">>))>>) }

\* The responses of the server: a status with a body that is JSON text or
\* other text, and 204, whose body is null.
Responses ==
    { Response(st[1], st[2], b) :
        st \in { <<200, S_OK>>, <<404, S_Not_Found>> },
        b \in {TextBody} \cup { JsonBody(v) : v \in JsonValues } }
    \cup { Response(204, S_No_Content, NoBody) }

ConcResponses ==
    { Response(200, S_OK, JsonBody(Obj(<<Prop(S_wallet_id, Str(<<"w","1">>))>>))),
      Response(404, S_Not_Found, JsonBody(Obj(<<Prop(S_message, Str(<<"b","a","d">>))>>))) }

Init == InitCommon /\ calls = <<IdleCall>>

\* MaxCalls slots, in the module loaded without COBO_BASE_URL.
InitConc ==
    /\ InitCommon
    /\ config.BASE_URL = Str(S_default_base_url)
    /\ calls = [c \in 1..MaxCalls |-> IdleCall]

Next ==
    \/ \E c \in DOMAIN calls, method \in ApiMethods, path \in ApiPaths,
          bodyObj \in ApiBodies : CallApiRequest(c, method, path, bodyObj)
    \/ \E c \in DOMAIN calls, name \in WalletNames : CallCreateWallet(c, name)
    \/ \E c \in DOMAIN calls, walletId \in WalletIds : CallGetDepositAddress(c, walletId)
    \/ \E c \in DOMAIN calls, walletId \in WalletIds, toAddress \in ToAddresses,
          amount \in Amounts : CallWithdrawETH(c, walletId, toAddress, amount)
    \/ \E c \in DOMAIN calls, response \in Responses : FetchResolve(c, response)
    \/ \E c \in DOMAIN calls : FetchReject(c)
    \/ \E c \in DOMAIN calls : JsonSettle(c)
    \/ \E c \in DOMAIN calls : TextSettle(c)
    \/ Tick

NextConc ==
    \/ \E c \in DOMAIN calls : CallApiRequest(c, S_get, S_v2_wallets, Null)
    \/ \E c \in DOMAIN calls, name \in WalletNames : CallCreateWallet(c, name)
    \/ \E c \in DOMAIN calls, response \in ConcResponses : FetchResolve(c, response)
    \/ \E c \in DOMAIN calls : FetchReject(c)
    \/ \E c \in DOMAIN calls : JsonSettle(c)
    \/ Tick

\* One invocation of an exported function, with every response.
Spec == Init /\ [][Next]_vars

\* Invocations pending at the same time.
SpecConc == InitConc /\ [][NextConc]_vars

(***************************************************************************)
(* The example script: main() of index.js.                                 *)
(***************************************************************************)
Started(op) == [ev |-> "start", op |-> op]
Completed(op) == [ev |-> "ok", op |-> op]
Failed(op) == [ev |-> "error", op |-> op]
\* console.log('\nAll operations completed successfully!')
LoggedSuccess == [ev |-> "success", op |-> "main"]

MainCatchNoExit(m, op) ==
    [m EXCEPT !.pc = "done", !.exitCode = 0, !.log = Append(@, Failed(op))]

\* The catch block: console.error and process.exit(1).
MainCatch(m, op) ==
    [m EXCEPT !.pc = "exited", !.exitCode = 1, !.log = Append(@, Failed(op))]

\* Examples 0 and 1 up to the first await: signRequest, then createWallet.
MainStart ==
    /\ main.pc = "start"
    /\ sigPrev' = sigCur
    /\ sigCur' = SignCall(S_GET, S_v2_wallets, NumToStr(clock), ListParams)
    /\ LET walletName == Str(S_Test_Wallet \o NumToStr(clock))
       IN  Begin(1, "createWallet", <<walletName>>, S_POST, S_v2_wallets,
                 CreateWalletBody(walletName))
    /\ main' = [main EXCEPT !.pc = "await_createWallet",
                            !.log = @ \o <<Started("signRequest"),
                                           Completed("signRequest"),
                                           Started("createWallet")>>]
    /\ UNCHANGED <<config, clock>>

\* createWallet settled: example 2 starts, or the catch block runs.
MainAfterCreateWallet ==
    /\ main.pc = "await_createWallet" /\ calls[1].pc = "done"
    /\ IF calls[1].outcome.kind = "return"
       THEN LET wallet == calls[1].outcome.value
                walletId == GetProp(wallet, S_wallet_id)
            IN  /\ Begin(2, "getDepositAddress", <<walletId>>, S_POST,
                         GetDepositAddressPath(walletId), GetDepositAddressBody)
                /\ main' = [main EXCEPT !.pc = "await_getDepositAddress",
                                        !.wallet = wallet,
                                        !.log = @ \o <<Completed("createWallet"),
                                                       Started("getDepositAddress")>>]
       ELSE /\ main' = MainCatch(main, "createWallet")
            /\ UNCHANGED <<calls, network>>
    /\ UNCHANGED <<config, clock, sigPrev, sigCur>>

\* getDepositAddress settled: example 3 starts, or the catch block runs.
MainAfterGetDepositAddress ==
    /\ main.pc = "await_getDepositAddress" /\ calls[2].pc = "done"
    /\ IF calls[2].outcome.kind = "return"
       THEN /\ Begin(3, "apiRequest", <<Str(S_GET), Str(S_v2_wallets), ListParams>>,
                     S_GET, S_v2_wallets, ListParams)
            /\ main' = [main EXCEPT !.pc = "await_apiRequest",
                                    !.log = @ \o <<Completed("getDepositAddress"),
                                                   Started("apiRequest")>>]
       ELSE /\ main' = MainCatch(main, "getDepositAddress")
            /\ UNCHANGED <<calls, network>>
    /\ UNCHANGED <<config, clock, sigPrev, sigCur>>

\* apiRequest settled: walletList.length is logged and then the success
\* line, or the catch block runs.  Example 4 is commented out.
MainAfterApiRequest ==
    /\ main.pc = "await_apiRequest" /\ calls[3].pc = "done"
    /\ main' = IF calls[3].outcome.kind = "return"
               THEN IF Nullish(calls[3].outcome.value)
                    THEN MainCatch(main, "main")
                    ELSE [main EXCEPT !.pc = "done", !.exitCode = 0,
                                      !.log = @ \o <<Completed("apiRequest"),
                                                     LoggedSuccess>>]
               ELSE MainCatch(main, "apiRequest")
    /\ UNCHANGED <<config, clock, calls, network, sigPrev, sigCur>>

NextMain ==
    \/ MainStart
    \/ MainAfterCreateWallet
    \/ MainAfterGetDepositAddress
    \/ MainAfterApiRequest
    \/ \E c \in DOMAIN calls, response \in Responses : FetchResolve(c, response)
    \/ \E c \in DOMAIN calls : FetchReject(c)
    \/ \E c \in DOMAIN calls : JsonSettle(c)
    \/ \E c \in DOMAIN calls : TextSettle(c)
    \/ Tick

\* main awaits three calls, one after the other: a slot for each.
InitMain == InitCommon /\ calls = <<IdleCall, IdleCall, IdleCall>>

\* One run of node src/index.js.
SpecMain == InitMain /\ [][NextMain]_vars

(***************************************************************************)
(* Properties of signRequest.                                              *)
(***************************************************************************)
SignCalls == { s \in {sigPrev, sigCur} : s.called }

\* The key/value pairs of a parameter argument, whatever their order.
PropSet(params) ==
    IF params.t = "object" THEN { params.fields[i] : i \in 1..Len(params.fields) }
    ELSE {}

ExpectedValueText(v) ==
    CASE v.t \in {"null", "array", "object"} -> JSONStringify(v)
      [] v.t = "string" -> v.s
      [] v.t = "number" -> NumToStr(v.n)
      [] OTHER -> S_undefined

\* The key=value pairs in ascending key order (the i-th is the pair with
\* i - 1 keys below its own), joined by "&".
ExpectedParamsStr(params) ==
    LET props == PropSet(params)
        Ranked(i) == CHOOSE p \in props :
                         Cardinality({ q \in props : StrLess(q.k, p.k) }) = i - 1
    IN  Join([i \in 1..Cardinality(props) |->
                  LET p == Ranked(i)
                  IN  p.k \o <<"=">> \o ExpectedValueText(p.v)],
             <<"&">>)

UpperOf(s) == [i \in 1..Len(s) |-> UpperChar(s[i])]

ExpectedMessage(s) ==
    Join(<<UpperOf(s.method), s.path, s.nonce, s.paramsStr>>, <<"|">>)

\* C2: signRequest signs, with the configured secret, the SHA-256 hash of
\* METHOD|PATH|NONCE|PARAMS with the method upper-cased, and returns the hex
\* DER signature; two calls whose inputs agree up to the case of the method
\* return the same signature.
C2_SignedMessage ==
    /\ \A s \in SignCalls :
          /\ s.message = ExpectedMessage(s)
          /\ s.result.derHex.signedHash.sha256 = s.message
          /\ s.result.derHex.key = config.API_SECRET.s
    /\ (sigPrev.called /\ sigCur.called
        /\ UpperOf(sigPrev.method) = UpperOf(sigCur.method)
        /\ sigPrev.path = sigCur.path /\ sigPrev.nonce = sigCur.nonce
        /\ sigPrev.params = sigCur.params)
          => sigPrev.result = sigCur.result

\* Two calls that differ in the case of the method alone.
C2_Witness ==
    /\ sigPrev.called /\ sigCur.called
    /\ sigPrev.method = S_get /\ sigCur.method = S_GET
    /\ sigPrev.path = sigCur.path /\ sigPrev.nonce = sigCur.nonce
    /\ sigPrev.params = sigCur.params /\ Len(sigCur.params.fields) = 2
    /\ sigPrev.result = sigCur.result

\* C10: two calls whose upper-cased method, path, nonce or parameter
\* key/value set differ never sign the same message.
C10_InjectiveMessage ==
    (sigPrev.called /\ sigCur.called
     /\ <<UpperOf(sigPrev.method), sigPrev.path, sigPrev.nonce, PropSet(sigPrev.params)>>
        # <<UpperOf(sigCur.method), sigCur.path, sigCur.nonce, PropSet(sigCur.params)>>)
       => sigPrev.message # sigCur.message

(***************************************************************************)
(* Properties of apiRequest and of the functions built on it.              *)
(***************************************************************************)
Slots == DOMAIN calls

RequestsOf(c) == { i \in DOMAIN network : network[i].from = c }

Wrappers == {"createWallet", "getDepositAddress", "withdrawETH"}

\* C3: apiRequest returns only when the fetch completed, the body parsed as
\* JSON and the status was 2xx, and then returns the parsed body; otherwise
\* it throws, and the error reaches the caller of createWallet,
\* getDepositAddress and withdrawETH unchanged.
C3_ReturnOnlyOnSuccess ==
    \A c \in Slots :
        LET call == calls[c]
            success == /\ call.responded
                       /\ call.response.body.kind = "json"
                       /\ call.response.status \in 200..299
        IN  /\ call.pc # "done" => call.api = Pending /\ call.outcome = Pending
            /\ call.pc = "done" =>
                  /\ success => call.api = Return(call.response.body.json)
                  /\ ~ success => call.api.kind = "throw"
                  /\ call.api.kind = "throw" => call.outcome = call.api

\* createWallet has thrown the error of a JSON response with status 404.
C3_Witness ==
    \E c \in Slots :
        /\ calls[c].pc = "done" /\ calls[c].op = "createWallet"
        /\ calls[c].responded /\ calls[c].response.status = 404
        /\ calls[c].response.body.kind = "json"
        /\ calls[c].api.kind = "throw" /\ calls[c].outcome = calls[c].api

\* C4: an invocation of apiRequest sends at most one HTTP request whatever
\* its outcome, and an invocation of createWallet, getDepositAddress or
\* withdrawETH invokes apiRequest exactly once.
C4_AtMostOneRequest ==
    \A c \in Slots :
        /\ Cardinality(RequestsOf(c)) <= 1
        /\ calls[c].apiCalls <= 1
        /\ calls[c].op \in Wrappers => calls[c].apiCalls = 1
        /\ calls[c].op = "none" => RequestsOf(c) = {}

\* withdrawETH has failed on a network error after sending its one request.
C4_Witness ==
    \E c \in Slots :
        /\ calls[c].pc = "done" /\ calls[c].op = "withdrawETH"
        /\ calls[c].sent /\ ~ calls[c].responded
        /\ calls[c].outcome.kind = "throw"
        /\ Cardinality(RequestsOf(c)) = 1

\* The request sent by entry e of the network carries the key, the nonce of
\* the signed message and the signature over its own method, path and body.
SignedAsSent(e) ==
    LET call == calls[e.from]
        h == e.request.headers
        signed == h["BIZ-API-SIGNATURE"].derHex
        params == IF call.bodyObj = Null THEN Obj(<<>>) ELSE call.bodyObj
    IN  /\ h["BIZ-API-KEY"] = config.API_KEY
        /\ h["BIZ-API-NONCE"].t = "string"
        /\ signed.key = config.API_SECRET.s
        /\ signed.signedHash.sha256 =
               Join(<<e.request.method, call.path, h["BIZ-API-NONCE"].s,
                      ExpectedParamsStr(params)>>, <<"|">>)
        /\ e.request.method = UpperOf(call.method)
        /\ e.request.url = config.BASE_URL.s \o call.path
        /\ e.request.body = IF call.bodyObj = Null THEN Undef
                            ELSE Str(JSONStringify(call.bodyObj))

\* A request is sent with the clock reading of that very step as its nonce.
NonceIsClockReading ==
    Len(network') > Len(network) =>
        network'[Len(network')].request.headers["BIZ-API-NONCE"] = Str(NumToStr(clock))

\* C5: every request apiRequest sends carries BIZ-API-KEY (the configured
\* key), BIZ-API-NONCE (the clock reading taken when the invocation began,
\* the nonce of the signed message) and BIZ-API-SIGNATURE (signRequest over
\* the method, path and body object of that request, or over the empty
\* parameter set when the body is null).
C5_SignedHeaders ==
    /\ [](\A i \in DOMAIN network : SignedAsSent(network[i]))
    /\ [][NonceIsClockReading]_vars

\* Requests sent at the second clock reading, with and without a body.
C5_Witness ==
    /\ \E i \in DOMAIN network :
          /\ network[i].request.body # Undef
          /\ network[i].request.headers["BIZ-API-NONCE"] = Str(<<"2">>)
          /\ calls[network[i].from].op = "withdrawETH"

\* C8: whenever the fetch completes with a body that is not valid JSON,
\* whatever the status, apiRequest throws the Error 'API returned non-JSON
\* response (status <status>)'.
C8_NonJsonError ==
    \A c \in Slots :
        (calls[c].pc = "done" /\ calls[c].responded
         /\ calls[c].response.body.kind # "json")
           => calls[c].api = Throw(NonJsonError(calls[c].response.status))

\* C9: for every successful response getDepositAddress returns a string:
\* the address of the first element of an array, or of the response itself,
\* and the empty string when that field is absent or empty.
C9_DepositAddressString ==
    \A c \in Slots :
        (calls[c].pc = "done" /\ calls[c].op = "getDepositAddress"
         /\ calls[c].api.kind = "return")
           => /\ calls[c].outcome.kind = "return"
              /\ calls[c].outcome.value.t = "string"
              /\ LET r == calls[c].api.value
                     info == IF r.t = "array" THEN r.items[1] ELSE r
                     address == IF info.t = "object" THEN Get(info, S_address) ELSE Undef
                 IN  calls[c].outcome.value =
                         IF address.t = "string" THEN address ELSE Str(<<>>)

(***************************************************************************)
(* Properties of the example script.                                       *)
(***************************************************************************)
MainOrder == <<"signRequest", "createWallet", "getDepositAddress", "apiRequest">>

StartsOf(log) == SelectSeq(log, LAMBDA e : e.ev = "start")

Threw(c) == calls[c].pc = "done" /\ calls[c].outcome.kind = "throw"

Returned(c) == calls[c].pc = "done" /\ calls[c].outcome.kind = "return"

\* C6: main starts signRequest, createWallet, getDepositAddress and
\* apiRequest GET /v2/wallets in that order, each after the one before it
\* completed; getDepositAddress gets the wallet_id of what createWallet
\* returned; once a step throws no later step starts and the process exits
\* with code 1 without the success line; no transfer request is ever sent.
C6_MainSequence ==
    LET starts == StartsOf(main.log)
    IN  /\ Len(starts) <= Len(MainOrder)
        /\ \A i \in 1..Len(starts) : starts[i].op = MainOrder[i]
        /\ \A i \in 2..Len(main.log) :
              main.log[i].ev = "start" =>
                  \E k \in 2..Len(MainOrder) :
                      /\ main.log[i].op = MainOrder[k]
                      /\ main.log[i - 1] = Completed(MainOrder[k - 1])
        /\ calls[1].op \in {"none", "createWallet"}
        /\ calls[2].op \in {"none", "getDepositAddress"}
        /\ calls[3].op \in {"none", "apiRequest"}
        /\ calls[2].op # "none" =>
              /\ Returned(1)
              /\ calls[2].args = <<GetProp(calls[1].outcome.value, S_wallet_id)>>
              /\ calls[2].path = S_v2_wallets_slash
                                 \o ToString(GetProp(calls[1].api.value, S_wallet_id))
                                 \o S_slash_addresses
        /\ calls[3].op # "none" =>
              /\ Returned(2)
              /\ calls[3].method = S_GET /\ calls[3].path = S_v2_wallets
        /\ \A c \in Slots :
              Threw(c) => /\ \A d \in Slots : d > c => calls[d].op = "none"
                          /\ main.pc \in {"await_createWallet", "await_getDepositAddress",
                                          "await_apiRequest", "exited"}
                          /\ \A i \in DOMAIN main.log : main.log[i] # LoggedSuccess
        /\ (main.pc \in {"exited", "done"} /\ \E c \in Slots : Threw(c)) =>
              /\ main.pc = "exited" /\ main.exitCode = 1
              /\ main.log[Len(main.log)].ev = "error"
        /\ main.exitCode = 1 <=> main.pc = "exited"
        /\ \A i \in DOMAIN network :
              /\ network[i].request.url # config.BASE_URL.s \o S_v2_transactions_transfer
              /\ \A j \in DOMAIN network : i < j => network[i].from < network[j].from

\* All four operations were started in order and the last one threw: the
\* process exited with code 1.
C6_Witness ==
    /\ main.pc = "exited" /\ main.exitCode = 1
    /\ Returned(1) /\ Returned(2) /\ Threw(3)
    /\ Len(StartsOf(main.log)) = 4
    /\ Len(network) = 2

(***************************************************************************)
(* Properties of concurrently pending invocations.                         *)
(***************************************************************************)
SameInputs(c, d) ==
    /\ calls[c].op # "none"
    /\ calls[c].op = calls[d].op
    /\ calls[c].args = calls[d].args
    /\ calls[c].now = calls[d].now

\* What an invocation sent and reported is a function of its own
\* arguments, its clock reading and the response to its own request.
DeterminedByOwnInputs ==
    \A c \in Slots, d \in Slots :
        SameInputs(c, d) =>
            /\ calls[c].request = calls[d].request
            /\ calls[c].sent = calls[d].sent
            /\ (calls[c].pc = "done" /\ calls[d].pc = "done"
                /\ calls[c].responded = calls[d].responded
                /\ calls[c].response = calls[d].response)
                  => /\ calls[c].api = calls[d].api
                     /\ calls[c].outcome = calls[d].outcome

\* A step of one invocation leaves the configuration and every other
\* invocation as they were.
StepIsLocal ==
    /\ config' = config
    /\ \A c \in Slots :
          calls'[c] # calls[c] => \A d \in Slots \ {c} : calls'[d] = calls[d]

============================================================================
